---- MODULE Spec2Model ----
(***************************************************************************)
(* A model of package hashsplit (src/hashsplit.go): the Splitter          *)
(* (Write / Close / checkSplit over a rolling buzhash32 checksum) and the *)
(* TreeBuilder (Add / Root) with Seek.                                     *)
(*                                                                         *)
(* Two specifications share the variables:                                 *)
(*   Spec      the Splitter: a caller issues Write and Close calls         *)
(*   TreeSpec  the TreeBuilder: a caller issues Add, Root and Seek calls   *)
(***************************************************************************)
EXTENDS Integers, Sequences, FiniteSets, TLC

\* ------------------------------------------------------------------------
\* Program constants (src/hashsplit.go:12-16)
\* ------------------------------------------------------------------------
defaultSplitBits == 13
windowSize == 64
defaultMinSize == windowSize

\* ------------------------------------------------------------------------
\* Bounds of the model
\* ------------------------------------------------------------------------
\* Splitter.MinSize ranges over -1..MaxMinSize, Splitter.SplitBits over 0..MaxSplitBits
MaxMinSize == 1
MaxSplitBits == 1
\* the length of the long run of zero bytes a Write call may pass
ZeroRun == 64
\* number of Write calls in one behaviour
MaxWrites == 2
\* the callback fails on its cbFailOn-th invocation, cbFailOn in 0..MaxCbFailOn (0: never)
MaxCbFailOn == 1
\* TreeBuilder: number of Add calls, largest level passed to Add
MaxAdds == 3
MaxLevel == 2
\* F fails on its fFailOn-th invocation, fFailOn in 0..MaxFFailOn (0: never)
MaxFFailOn == 2
\* number of Root calls in one behaviour
MaxRoots == 2
\* Tree: the consumer stops at its stopAt-th node, stopAt in 0..MaxStopAt (0: never)
MaxStopAt == 2
\* channel form of Split: number of bytes the reader delivers
MaxChanBytes == 3
\* Splitter.MaxSize in 0..MaxMaxSize (0: no maximum)
MaxMaxSize == 2
\* RollSum: number of Roll calls and runs of Roll calls
MaxRolls == 3

\* the byte values written to the Splitter
Bytes == {0, 1, 2}

Nil == "nil"

\* ------------------------------------------------------------------------
\* 32-bit arithmetic.  A uint32 is the set of the positions (0..31) of its
\* one bits: bit i stands for 2^i.
\* ------------------------------------------------------------------------
WordBits == 32

\* x ^ y
Xor32(x, y) == (x \ y) \cup (y \ x)

\* bits.RotateLeft32(x, k)
RotL32(x, k) == {(i + k) % WordBits : i \in x}

\* bits.TrailingZeros32: 32 for h = 0
TrailingZeros32(h) ==
    IF h = {} THEN WordBits
    ELSE CHOOSE i \in h : \A j \in h : i <= j

\* ------------------------------------------------------------------------
\* The rolling checksum: buzhash32 over the byte table cp32G, window of
\* windowSize bytes.  The table is declared outside the files modelled
\* here; the three entries used (0x6b326ac4, 0x6b324ac4, 0x6b326ac5) are
\* chosen so that the byte 1 entering an all-zero window gives a digest
\* with 13 trailing zero bits and the byte 2 gives an odd digest.
\* ------------------------------------------------------------------------
cp32G(b) ==
    CASE b = 0 -> {2, 6, 7, 9, 11, 13, 14, 17, 20, 21, 24, 25, 27, 29, 30}
      [] b = 1 -> {2, 6, 7, 9, 11, 14, 17, 20, 21, 24, 25, 27, 29, 30}
      [] b = 2 -> {0, 2, 6, 7, 9, 11, 13, 14, 17, 20, 21, 24, 25, 27, 29, 30}

\* rs.Write(zeroes[:]): the window holds windowSize zero bytes; the sum is
\* folded over the window, oldest byte first
RECURSIVE SumOfWindow(_, _, _, _)
SumOfWindow(w, lo, hi, acc) ==
    IF lo > hi THEN acc
    ELSE IF lo = hi THEN Xor32(RotL32(acc, 1), cp32G(w[lo]))
    ELSE LET mid  == (lo + hi) \div 2
             left == SumOfWindow(w, lo, mid, acc)
         IN  \* the left half is folded first, then the right half
             IF left = {} THEN SumOfWindow(w, mid + 1, hi, {})
             ELSE SumOfWindow(w, mid + 1, hi, left)

NewRollSum ==
    LET zeroes == [i \in 1..windowSize |-> 0]
    IN  [window |-> zeroes, oldest |-> 1, sum |-> SumOfWindow(zeroes, 1, windowSize, {})]

\* rs.Roll(c): the byte c enters the window, the oldest byte leaves it
Roll(r, c) ==
    LET leaving == r.window[r.oldest]
        h0 == RotL32(cp32G(leaving), windowSize % WordBits)
        hn == cp32G(c)
    IN  [window |-> [r.window EXCEPT ![r.oldest] = c],
         oldest |-> IF r.oldest = windowSize THEN 1 ELSE r.oldest + 1,
         sum    |-> Xor32(Xor32(RotL32(r.sum, 1), h0), hn)]

\* rs.Sum32()
Sum32(r) == r.sum


\* ------------------------------------------------------------------------
\* State
\* ------------------------------------------------------------------------
VARIABLES
    \* Splitter (src/hashsplit.go:39-72)
    MinSize,      \* Splitter.MinSize
    MaxSize,      \* Splitter.MaxSize, of the Splitter that has a maximum
                  \* chunk size (0: no maximum, and in src/hashsplit.go)
    SplitBits,    \* Splitter.SplitBits
    chunk,        \* Splitter.chunk, the chunk being built
    rs,           \* Splitter.rs, the rolling checksum
    \* the Splitter's caller and callback
    cbFailOn,     \* the callback f fails on this invocation (0: never)
    input,        \* the bytes of all slices passed to Write, in call order
    calls,        \* the invocations of the callback f, in call order
    steps,        \* one record per byte Write has processed
    ret,          \* what the last Write or Close call returned
    nWrites,      \* number of Write calls so far
    closeCalled   \* TRUE once Close has been called

splitVars == <<MinSize, MaxSize, SplitBits, chunk, rs, cbFailOn, input, calls, steps,
               ret, nWrites, closeCalled>>

\* ------------------------------------------------------------------------
\* Splitter
\* ------------------------------------------------------------------------
\* Write, lines 110-113
\* variant: only a negative MinSize selects the default
minSizeZeroIsNone == IF MinSize < 0 THEN defaultMinSize ELSE MinSize

minSize == IF MinSize <= 0 THEN defaultMinSize ELSE MinSize

\* checkSplit, lines 149-152
splitBits == IF SplitBits = 0 THEN defaultSplitBits ELSE SplitBits

\* checkSplit, lines 153-158
\* variant: a boundary needs more than splitBits trailing zero bits
checkSplitStrict(r) ==
    LET h  == Sum32(r)
        tz == TrailingZeros32(h)
    IN  IF tz > splitBits
        THEN [level |-> tz - splitBits, shouldSplit |-> TRUE]
        ELSE [level |-> 0, shouldSplit |-> FALSE]

checkSplit(r) ==
    LET h  == Sum32(r)
        tz == TrailingZeros32(h)
    IN  IF tz >= splitBits
        THEN [level |-> tz - splitBits, shouldSplit |-> TRUE]
        ELSE [level |-> 0, shouldSplit |-> FALSE]

\* Write, line 117: the chunk is still shorter than the minimum size
\* variant: no minimum size is applied (lines 117-119 missing)
belowMinSizeNever(ch) == FALSE

belowMinSize(ch) == Len(ch) < minSize

\* the callback s.f: it fails on its cbFailOn-th invocation
cbOk(log) == Len(log) + 1 # cbFailOn

\* Write, lines 115-126: the body of the loop for the byte c = inp[i]
\* (i is 1-based).  st = [chunk, rs, calls, steps, returned, n, err];
\* once the loop has returned early the remaining bytes are not processed.
\* A step records the byte, the length of the chunk and the trailing zero
\* bits of the digest after the byte, and whether the callback was invoked;
\* a call records the chunk and level passed and the step it was made at.
\* variant: the chunk is not cleared after the callback took it (line 125 missing)
WriteByteKeepsChunk(st, c, i) ==
    IF st.returned THEN st
    ELSE
        LET ch1 == Append(st.chunk, c)
            rs1 == Roll(st.rs, c)
            tz  == TrailingZeros32(Sum32(rs1))
            cs  == checkSplit(rs1)
            ok  == cbOk(st.calls)
            at  == Len(st.steps) + 1
        IN  IF belowMinSize(ch1) \/ ~cs.shouldSplit
            THEN [st EXCEPT !.chunk = ch1, !.rs = rs1,
                            !.steps = Append(@, [c |-> c, len |-> Len(ch1), tz |-> tz,
                                                 called |-> FALSE])]
            ELSE [chunk |-> ch1,
                  rs    |-> rs1,
                  calls |-> Append(st.calls, [chunk |-> ch1, level |-> cs.level,
                                              op |-> "Write", ok |-> ok, at |-> at]),
                  steps |-> Append(st.steps, [c |-> c, len |-> Len(ch1), tz |-> tz,
                                              called |-> TRUE]),
                  returned |-> ~ok,
                  n     |-> IF ok THEN st.n ELSE i - 1,
                  err   |-> IF ok THEN st.err ELSE "cberr"]

\* variant: the error of the callback is kept but the loop goes on (line 123 missing)
WriteByteGoesOn(st, c, i) ==
    IF st.returned THEN st
    ELSE
        LET ch1 == Append(st.chunk, c)
            rs1 == Roll(st.rs, c)
            tz  == TrailingZeros32(Sum32(rs1))
            cs  == checkSplit(rs1)
            ok  == cbOk(st.calls)
            at  == Len(st.steps) + 1
        IN  IF belowMinSize(ch1) \/ ~cs.shouldSplit
            THEN [st EXCEPT !.chunk = ch1, !.rs = rs1,
                            !.steps = Append(@, [c |-> c, len |-> Len(ch1), tz |-> tz,
                                                 called |-> FALSE])]
            ELSE [chunk |-> <<>>,
                  rs    |-> rs1,
                  calls |-> Append(st.calls, [chunk |-> ch1, level |-> cs.level,
                                              op |-> "Write", ok |-> ok, at |-> at]),
                  steps |-> Append(st.steps, [c |-> c, len |-> Len(ch1), tz |-> tz,
                                              called |-> TRUE]),
                  returned |-> FALSE,
                  n     |-> IF ok THEN st.n ELSE i - 1,
                  err   |-> IF ok THEN st.err ELSE "cberr"]

\* variant: the rolling checksum is initialised again after each chunk
WriteByteResets(st, c, i) ==
    IF st.returned THEN st
    ELSE
        LET ch1 == Append(st.chunk, c)
            rs1 == Roll(st.rs, c)
            tz  == TrailingZeros32(Sum32(rs1))
            cs  == checkSplit(rs1)
            ok  == cbOk(st.calls)
            at  == Len(st.steps) + 1
        IN  IF belowMinSize(ch1) \/ ~cs.shouldSplit
            THEN [st EXCEPT !.chunk = ch1, !.rs = rs1,
                            !.steps = Append(@, [c |-> c, len |-> Len(ch1), tz |-> tz,
                                                 called |-> FALSE])]
            ELSE [chunk |-> IF ok THEN <<>> ELSE ch1,
                  rs    |-> NewRollSum,
                  calls |-> Append(st.calls, [chunk |-> ch1, level |-> cs.level,
                                              op |-> "Write", ok |-> ok, at |-> at]),
                  steps |-> Append(st.steps, [c |-> c, len |-> Len(ch1), tz |-> tz,
                                              called |-> TRUE]),
                  returned |-> ~ok,
                  n     |-> IF ok THEN st.n ELSE i - 1,
                  err   |-> IF ok THEN st.err ELSE "cberr"]

\* the loop body as written
WriteByte(st, c, i) ==
    IF st.returned THEN st
    ELSE
        LET ch1 == Append(st.chunk, c)
            rs1 == Roll(st.rs, c)
            tz  == TrailingZeros32(Sum32(rs1))
            cs  == checkSplit(rs1)
            ok  == cbOk(st.calls)
            at  == Len(st.steps) + 1
        IN  IF belowMinSize(ch1) \/ ~cs.shouldSplit
            THEN [st EXCEPT !.chunk = ch1, !.rs = rs1,
                            !.steps = Append(@, [c |-> c, len |-> Len(ch1), tz |-> tz,
                                                 called |-> FALSE])]
            ELSE [chunk |-> IF ok THEN <<>> ELSE ch1,
                  rs    |-> rs1,
                  calls |-> Append(st.calls, [chunk |-> ch1, level |-> cs.level,
                                              op |-> "Write", ok |-> ok, at |-> at]),
                  steps |-> Append(st.steps, [c |-> c, len |-> Len(ch1), tz |-> tz,
                                              called |-> TRUE]),
                  returned |-> ~ok,
                  n     |-> IF ok THEN st.n ELSE i - 1,
                  err   |-> IF ok THEN st.err ELSE "cberr"]

\* Write, line 114: for i, c := range inp, over inp[lo..hi]
RECURSIVE WriteLoop(_, _, _, _)
WriteLoop(st, inp, lo, hi) ==
    IF lo > hi THEN st
    ELSE IF lo = hi THEN WriteByte(st, inp[lo], lo)
    ELSE LET mid  == (lo + hi) \div 2
             left == WriteLoop(st, inp, lo, mid)
         IN  IF left.returned THEN left ELSE WriteLoop(left, inp, mid + 1, hi)

\* the slices a caller passes to Write: the empty slice, single bytes, a
\* two-byte slice, and a run of ZeroRun zero bytes (long enough to fill a
\* chunk of defaultMinSize bytes)
Slices ==
    {<<>>, <<2, 0>>, [i \in 1..ZeroRun |-> 0]} \cup {<<b>> : b \in Bytes}

\* slices whose bytes stay in the checksum window after a boundary: a
\* window of zero bytes closed by the byte 1 (a boundary at the default
\* settings), a run of zero bytes, and single bytes
LocalSlices ==
    {[i \in 1..windowSize |-> IF i = windowSize THEN 1 ELSE 0],
     [i \in 1..ZeroRun |-> 0], <<0>>, <<2>>}

\* func (s *Splitter) Write(inp []byte) (int, error)
\* variant: every Write starts from a newly initialised rolling checksum
WriteResetsSum(inp) ==
    /\ nWrites < MaxWrites
    /\ LET r == WriteLoop([chunk |-> chunk, rs |-> NewRollSum, calls |-> calls,
                           steps |-> steps, returned |-> FALSE,
                           n |-> Len(inp), err |-> Nil],
                          inp, 1, Len(inp))
       IN  /\ chunk' = r.chunk
           /\ rs' = r.rs
           /\ calls' = r.calls
           /\ steps' = r.steps
           /\ ret' = [op |-> "Write", n |-> r.n, err |-> r.err]
    /\ input' = input \o inp
    /\ nWrites' = nWrites + 1
    /\ UNCHANGED <<MinSize, MaxSize, SplitBits, cbFailOn, closeCalled>>

Write(inp) ==
    /\ nWrites < MaxWrites
    /\ LET r == WriteLoop([chunk |-> chunk, rs |-> rs, calls |-> calls,
                           steps |-> steps, returned |-> FALSE,
                           n |-> Len(inp), err |-> Nil],
                          inp, 1, Len(inp))
       IN  /\ chunk' = r.chunk
           /\ rs' = r.rs
           /\ calls' = r.calls
           /\ steps' = r.steps
           /\ ret' = [op |-> "Write", n |-> r.n, err |-> r.err]
    /\ input' = input \o inp
    /\ nWrites' = nWrites + 1
    /\ UNCHANGED <<MinSize, MaxSize, SplitBits, cbFailOn, closeCalled>>

\* Close, line 139: nothing is buffered
\* variant: Close does not test the buffer
nothingBufferedNever(ch) == FALSE

nothingBuffered(ch) == Len(ch) = 0

\* func (s *Splitter) Close() error
\* variant: Close discards a buffer shorter than the minimum size
CloseDropsShort ==
    /\ IF nothingBuffered(chunk) \/ belowMinSize(chunk)
       THEN /\ ret' = [op |-> "Close", n |-> 0, err |-> Nil]
            /\ chunk' = <<>>
            /\ UNCHANGED calls
       ELSE LET cs == checkSplit(rs)
                ok == cbOk(calls)
            IN  /\ calls' = Append(calls, [chunk |-> chunk, level |-> cs.level,
                                            op |-> "Close", ok |-> ok,
                                            at |-> Len(steps)])
                /\ chunk' = <<>>
                /\ ret' = [op |-> "Close", n |-> 0, err |-> IF ok THEN Nil ELSE "cberr"]
    /\ closeCalled' = TRUE
    /\ UNCHANGED <<MinSize, MaxSize, SplitBits, rs, cbFailOn, input, steps, nWrites>>

\* variant: the buffer is kept when the callback fails, as Write keeps it
CloseKeepsOnError ==
    /\ IF nothingBuffered(chunk)
       THEN /\ ret' = [op |-> "Close", n |-> 0, err |-> Nil]
            /\ UNCHANGED <<chunk, calls>>
       ELSE LET cs == checkSplit(rs)
                ok == cbOk(calls)
            IN  /\ calls' = Append(calls, [chunk |-> chunk, level |-> cs.level,
                                            op |-> "Close", ok |-> ok,
                                            at |-> Len(steps)])
                /\ chunk' = IF ok THEN <<>> ELSE chunk
                /\ ret' = [op |-> "Close", n |-> 0, err |-> IF ok THEN Nil ELSE "cberr"]
    /\ closeCalled' = TRUE
    /\ UNCHANGED <<MinSize, MaxSize, SplitBits, rs, cbFailOn, input, steps, nWrites>>

\* Close as written
Close ==
    /\ IF nothingBuffered(chunk)
       THEN /\ ret' = [op |-> "Close", n |-> 0, err |-> Nil]
            /\ UNCHANGED <<chunk, calls>>
       ELSE LET cs == checkSplit(rs)
                ok == cbOk(calls)
            IN  /\ calls' = Append(calls, [chunk |-> chunk, level |-> cs.level,
                                            op |-> "Close", ok |-> ok,
                                            at |-> Len(steps)])
                /\ chunk' = <<>>
                /\ ret' = [op |-> "Close", n |-> 0, err |-> IF ok THEN Nil ELSE "cberr"]
    /\ closeCalled' = TRUE
    /\ UNCHANGED <<MinSize, MaxSize, SplitBits, rs, cbFailOn, input, steps, nWrites>>

\* NewSplitter (lines 97-103), with the exported fields set by the caller
SplitInit ==
    /\ MinSize \in -1..MaxMinSize
    /\ MaxSize = 0
    /\ SplitBits \in 0..MaxSplitBits
    /\ chunk = <<>>
    /\ rs = NewRollSum
    /\ cbFailOn \in 0..MaxCbFailOn
    /\ input = <<>>
    /\ calls = <<>>
    /\ steps = <<>>
    /\ ret = [op |-> "New", n |-> 0, err |-> Nil]
    /\ nWrites = 0
    /\ closeCalled = FALSE

\* ------------------------------------------------------------------------
\* The Splitter with a maximum chunk size.  TestSplitAndTree sets
\* s.MaxSize; the Splitter that has this field is not among the files
\* modelled here, so its step is taken from the description of the
\* operation: for each byte, append it and roll the checksum; while the
\* chunk is shorter than the minimum size, go on; emit the chunk with level
\* tz - split_bits when tz >= split_bits, else with level 0 when
\* max_size > 0 and the chunk length has reached max_size (a natural
\* boundary wins over the forced cut); the end of the input emits what is
\* buffered, as Close does.
\* ------------------------------------------------------------------------
\* variant: the maximum size never forces a boundary
maxSizeReachedNever(ch) == FALSE

\* the chunk length has reached max_size
maxSizeReached(ch) == MaxSize > 0 /\ Len(ch) >= MaxSize

\* the step for the byte c = inp[i]; the consumer takes every chunk, so
\* the steps never stop early (st.returned stays FALSE)
MaxWriteByte(st, c, i) ==
    LET ch1 == Append(st.chunk, c)
        rs1 == Roll(st.rs, c)
        tz  == TrailingZeros32(Sum32(rs1))
        cs  == checkSplit(rs1)
        at  == Len(st.steps) + 1
    IN  IF belowMinSize(ch1) \/ (~cs.shouldSplit /\ ~maxSizeReached(ch1))
        THEN [st EXCEPT !.chunk = ch1, !.rs = rs1,
                        !.steps = Append(@, [c |-> c, len |-> Len(ch1), tz |-> tz,
                                             called |-> FALSE])]
        ELSE [st EXCEPT !.chunk = <<>>, !.rs = rs1,
                        !.calls = Append(@, [chunk |-> ch1,
                                             level |-> IF cs.shouldSplit THEN cs.level ELSE 0,
                                             op |-> "Write", ok |-> TRUE, at |-> at]),
                        !.steps = Append(@, [c |-> c, len |-> Len(ch1), tz |-> tz,
                                             called |-> TRUE])]

\* the steps for the bytes inp[lo..hi], in order
RECURSIVE MaxWriteLoop(_, _, _, _)
MaxWriteLoop(st, inp, lo, hi) ==
    IF lo > hi THEN st
    ELSE IF lo = hi THEN MaxWriteByte(st, inp[lo], lo)
    ELSE LET mid  == (lo + hi) \div 2
             left == MaxWriteLoop(st, inp, lo, mid)
         IN  IF left.returned THEN left ELSE MaxWriteLoop(left, inp, mid + 1, hi)

\* the bytes inp are fed to the Splitter
MaxWrite(inp) ==
    /\ nWrites < MaxWrites
    /\ ~closeCalled
    /\ LET r == MaxWriteLoop([chunk |-> chunk, rs |-> rs, calls |-> calls,
                              steps |-> steps, returned |-> FALSE],
                             inp, 1, Len(inp))
       IN  /\ chunk' = r.chunk
           /\ rs' = r.rs
           /\ calls' = r.calls
           /\ steps' = r.steps
           /\ ret' = [op |-> "Write", n |-> Len(inp), err |-> Nil]
    /\ input' = input \o inp
    /\ nWrites' = nWrites + 1
    /\ UNCHANGED <<MinSize, MaxSize, SplitBits, cbFailOn, closeCalled>>

\* the end of the input: what is buffered is emitted
MaxClose ==
    /\ ~closeCalled
    /\ Close

\* a Splitter with MinSize, SplitBits and MaxSize set, and a consumer that
\* takes every chunk
MaxSplitInit ==
    /\ MinSize \in -1..MaxMinSize
    /\ MaxSize \in 0..MaxMaxSize
    /\ SplitBits \in 0..MaxSplitBits
    /\ chunk = <<>>
    /\ rs = NewRollSum
    /\ cbFailOn = 0
    /\ input = <<>>
    /\ calls = <<>>
    /\ steps = <<>>
    /\ ret = [op |-> "New", n |-> 0, err |-> Nil]
    /\ nWrites = 0
    /\ closeCalled = FALSE

\* ------------------------------------------------------------------------
\* Split (src/hashsplit.go:76-83): a default Splitter is fed from the
\* reader r by io.Copy and then closed.  io.Copy reads r into a buffer and
\* passes every non-empty read to s.Write; it stops at the first error of
\* Write, which it returns, or at the first error of r, which it returns
\* unless it is io.EOF.
\* ------------------------------------------------------------------------
VARIABLES
    splitRet,     \* "none": Split is not used; "running": io.Copy is reading;
                  \* "copied": io.Copy returned nil; else the error Split returned
    rdLast        \* what the last Read of r returned: "none", "nil", "EOF", "rderr"

splitFnVars == <<splitRet, rdLast>>

\* what a Read of r returns besides the bytes
ReadErrs == {Nil, "EOF", "rderr"}

\* the outcome of one round of io.Copy, lines 78-81: werr is the error of
\* s.Write (Nil when Write was not called), e the error of the Read
\* variant: an error of the reader is taken for the end of the input
copyOutcomeAnyErrIsEOF(werr, e) ==
    IF werr # Nil THEN werr
    ELSE IF e # Nil THEN "copied"
    ELSE "running"

copyOutcome(werr, e) ==
    IF werr # Nil THEN werr
    ELSE IF e = "rderr" THEN "rderr"
    ELSE IF e = "EOF" THEN "copied"
    ELSE "running"

\* Split, line 78: one round of io.Copy(s, r); the Read returns inp and e
SplitRead(inp, e) ==
    /\ splitRet = "running"
    /\ IF Len(inp) > 0
       THEN Write(inp)
       ELSE /\ nWrites < MaxWrites
            /\ nWrites' = nWrites + 1
            /\ UNCHANGED <<MinSize, MaxSize, SplitBits, chunk, rs, cbFailOn, input, calls,
                           steps, ret, closeCalled>>
    /\ rdLast' = e
    /\ splitRet' = copyOutcome(IF Len(inp) > 0 THEN ret'.err ELSE Nil, e)

\* Split, line 82: return s.Close()
SplitClose ==
    /\ splitRet = "copied"
    /\ Close
    /\ splitRet' = ret'.err
    /\ UNCHANGED rdLast

\* Split is not used
SplitFnIdle ==
    /\ splitRet = "none"
    /\ rdLast = "none"

\* Split, line 77: s := NewSplitter(f)
SplitFnInit ==
    /\ SplitInit
    /\ MinSize = 0
    /\ SplitBits = 0
    /\ splitRet = "running"
    /\ rdLast = "none"

\* ------------------------------------------------------------------------
\* TreeBuilder (src/hashsplit.go:179-365)
\*
\* The nodes live in a heap: heap[id] is the TreeBuilderNode with address
\* id, its Nodes field holds the addresses of its children.  NilNode is the
\* nil pointer.  size and offset are uint64 in the source; the sizes
\* reached here stay far below 2^64.
\* ------------------------------------------------------------------------
VARIABLES
    heap,         \* the TreeBuilderNode objects allocated so far
    levels,       \* TreeBuilder.levels, a sequence of node addresses
    hasF,         \* TRUE iff TreeBuilder.F is non-nil
    fFailOn,      \* F fails on this invocation (0: never)
    fCalls,       \* the addresses F was invoked on, in call order
    added,        \* the chunks passed to Add, in call order
    addLevels,    \* the levels passed to Add, in call order
    tret,         \* what the last Add or Root call returned
    nAdds,        \* number of Add calls so far
    nRoots,       \* number of Root calls so far
    panicked,     \* TRUE once a call dereferenced a nil pointer
    seekRes       \* the argument and result of the last Seek call

treeVars == <<heap, levels, hasF, fFailOn, fCalls, added, addLevels, tret,
              nAdds, nRoots, panicked, seekRes>>

NilNode == 0

\* Seek has not been called on the current tree
NoSeek == [n |-> NilNode, pos |-> 0, res |-> [node |-> NilNode, err |-> Nil, fell |-> FALSE]]

\* new(TreeBuilderNode) / &TreeBuilderNode{size: sz, offset: off}
NewNode(sz, off) == [Nodes |-> <<>>, Chunks |-> <<>>, size |-> sz, offset |-> off]

\* allocate a node: it gets the next free address
Alloc(h, node) == h \o <<node>>

\* the callback tb.F: it fails on its fFailOn-th invocation
fOk(log) == Len(log) + 1 # fFailOn

\* Add, line 296 / the offset of the node that replaces a closed one
\* variant: the new node starts where its parent starts
nextOffsetOfParent(parent) == parent.offset

nextOffset(parent) == parent.offset + parent.size

\* Add, lines 280-296: the body of the loop for index i (0-based).
\* st = [heap, levels, fCalls, returned, err]
AddLevel(st, i) ==
    IF st.returned THEN st
    ELSE
        LET \* lines 280-284: a new top level
            isTop == i = Len(st.levels) - 1
            heap1 == IF isTop
                     THEN Alloc(st.heap, NewNode(st.heap[st.levels[i + 1]].size, 0))
                     ELSE st.heap
            lev1  == IF isTop THEN Append(st.levels, Len(heap1)) ELSE st.levels
            cur   == lev1[i + 1]
            up    == lev1[i + 2]
            \* lines 285-292
            ok    == ~hasF \/ fOk(st.fCalls)
            fc1   == IF hasF THEN Append(st.fCalls, cur) ELSE st.fCalls
        IN  IF ~ok
            THEN [heap |-> heap1, levels |-> lev1, fCalls |-> fc1,
                  returned |-> TRUE, err |-> "ferr"]
            ELSE
                LET \* line 293
                    heap2 == [heap1 EXCEPT ![up].Nodes = Append(@, cur)]
                    \* lines 294-296
                    heap3 == Alloc(heap2, NewNode(0, nextOffset(heap2[up])))
                IN  [heap |-> heap3,
                     levels |-> [lev1 EXCEPT ![i + 1] = Len(heap3)],
                     fCalls |-> fc1, returned |-> FALSE, err |-> Nil]

\* Add, line 279: for i := uint(0); i < level; i++
RECURSIVE AddLoop(_, _, _)
AddLoop(st, i, level) ==
    IF i >= level \/ st.returned THEN st
    ELSE AddLoop(AddLevel(st, i), i + 1, level)

\* Add, lines 276-278: every open node absorbs the bytes
\* variant: only the lowest open node absorbs the bytes
AddSizeLowest(h, lev, n) ==
    [id \in DOMAIN h |->
        IF lev[1] = id
        THEN [h[id] EXCEPT !.size = @ + n]
        ELSE h[id]]

AddSize(h, lev, n) ==
    [id \in DOMAIN h |->
        IF \E k \in DOMAIN lev : lev[k] = id
        THEN [h[id] EXCEPT !.size = @ + n]
        ELSE h[id]]

\* the chunk a caller passes to the k-th Add call: non-empty, as a Splitter
\* produces them; the chunks differ in content and alternate in length
NextChunk(k) == [i \in 1..(1 + (k % 2)) |-> k]

\* func (tb *TreeBuilder) Add(bytes []byte, level uint) error
Add(bytes, level) ==
    /\ ~panicked
    /\ nAdds < MaxAdds
    /\ nAdds' = nAdds + 1
    /\ added' = Append(added, bytes)
    /\ addLevels' = Append(addLevels, level)
    /\ seekRes' = NoSeek
    /\ LET \* lines 272-274
           heap0 == IF Len(levels) = 0 THEN Alloc(heap, NewNode(0, 0)) ELSE heap
           lev0  == IF Len(levels) = 0 THEN <<Len(heap0)>> ELSE levels
       IN  IF lev0[1] = NilNode
           THEN \* line 275 dereferences the nil tb.levels[0]
                /\ panicked' = TRUE
                /\ tret' = [op |-> "Add", node |-> NilNode, err |-> "panic"]
                /\ UNCHANGED <<heap, levels, fCalls>>
           ELSE LET \* line 275
                    heap1 == [heap0 EXCEPT ![lev0[1]].Chunks = Append(@, bytes)]
                    heap2 == AddSize(heap1, lev0, Len(bytes))
                    r     == AddLoop([heap |-> heap2, levels |-> lev0, fCalls |-> fCalls,
                                      returned |-> FALSE, err |-> Nil], 0, level)
                IN  /\ heap' = r.heap
                    /\ levels' = r.levels
                    /\ fCalls' = r.fCalls
                    /\ tret' = [op |-> "Add", node |-> NilNode, err |-> r.err]
                    /\ UNCHANGED panicked
    /\ UNCHANGED <<hasF, fFailOn, nRoots>>

\* Root, lines 316-325: the body of the loop for index i (0-based).
\* st = [heap, levels, fCalls, returned, err]
RootLevel(st, i) ==
    IF st.returned THEN st
    ELSE
        LET cur == st.levels[i + 1]
            up  == st.levels[i + 2]
            ok  == ~hasF \/ fOk(st.fCalls)
            fc1 == IF hasF THEN Append(st.fCalls, cur) ELSE st.fCalls
        IN  IF ~ok
            THEN [st EXCEPT !.fCalls = fc1, !.returned = TRUE, !.err = "ferr"]
            ELSE [heap |-> [st.heap EXCEPT ![up].Nodes = Append(@, cur)],
                  levels |-> [st.levels EXCEPT ![i + 1] = NilNode],
                  fCalls |-> fc1, returned |-> FALSE, err |-> Nil]

\* Root, line 315: for i := 0; i < len(tb.levels)-1; i++
RECURSIVE RootLoop(_, _)
RootLoop(st, i) ==
    IF i >= Len(st.levels) - 1 \/ st.returned THEN st
    ELSE RootLoop(RootLevel(st, i), i + 1)

\* Root, line 314: the lowest open node holds chunks, the open nodes are attached
\* variant: the open nodes are attached whether or not the lowest holds chunks
lastOpenAlways(h, lev) == TRUE

lastOpen(h, lev) == Len(h[lev[1]].Chunks) > 0

\* Root, line 346: the top node is returned as it is
\* variant: a top node with a single child is returned as it is
topIsRootOne(top) == Len(top.Nodes) >= 1

topIsRoot(top) == Len(top.Nodes) > 1

\* Root, lines 353-362: descend through the nodes that have one child
\* variant: the descent stops after one node
PruneOneStep(h, id) == IF Len(h[id].Nodes) = 1 THEN h[id].Nodes[1] ELSE id

RECURSIVE Prune(_, _)
Prune(h, id) ==
    IF Len(h[id].Nodes) = 1 THEN Prune(h, h[id].Nodes[1]) ELSE id

\* Root, lines 337-364: the node returned once the open nodes are attached;
\* F is applied to the node only when it is levels[0] or the top node
\* variant: F is not applied to the node returned (lines 339-341, 347-349 missing)
RootResultSkipsF(h, lev, fc) ==
    LET top    == lev[Len(lev)]
        direct == Len(lev) = 1 \/ topIsRoot(h[top])
    IN  IF direct
        THEN [fCalls |-> fc, node |-> top, err |-> Nil]
        ELSE [fCalls |-> fc, node |-> Prune(h, top), err |-> Nil]

RootResult(h, lev, fc) ==
    LET top    == lev[Len(lev)]
        direct == Len(lev) = 1 \/ topIsRoot(h[top])
        ok     == ~hasF \/ fOk(fc)
    IN  IF direct
        THEN [fCalls |-> IF hasF THEN Append(fc, top) ELSE fc,
              node   |-> IF ok THEN top ELSE NilNode,
              err    |-> IF ok THEN Nil ELSE "ferr"]
        ELSE [fCalls |-> fc, node |-> Prune(h, top), err |-> Nil]

\* func (tb *TreeBuilder) Root() (Node, error)
Root ==
    /\ ~panicked
    /\ nRoots < MaxRoots
    /\ nRoots' = nRoots + 1
    /\ seekRes' = NoSeek
    /\ IF Len(levels) = 0
       THEN \* lines 310-312
            /\ tret' = [op |-> "Root", node |-> NilNode, err |-> Nil]
            /\ UNCHANGED <<heap, levels, fCalls, panicked>>
       ELSE IF levels[1] = NilNode
       THEN \* line 314 dereferences the nil tb.levels[0]
            /\ panicked' = TRUE
            /\ tret' = [op |-> "Root", node |-> NilNode, err |-> "panic"]
            /\ UNCHANGED <<heap, levels, fCalls>>
       ELSE LET st0 == [heap |-> heap, levels |-> levels, fCalls |-> fCalls,
                        returned |-> FALSE, err |-> Nil]
                st1 == IF lastOpen(heap, levels) THEN RootLoop(st0, 0) ELSE st0
            IN  IF st1.returned
                THEN /\ heap' = st1.heap
                     /\ levels' = st1.levels
                     /\ fCalls' = st1.fCalls
                     /\ tret' = [op |-> "Root", node |-> NilNode, err |-> st1.err]
                     /\ UNCHANGED panicked
                ELSE LET r == RootResult(st1.heap, st1.levels, st1.fCalls)
                     IN  /\ heap' = st1.heap
                         /\ levels' = st1.levels
                         /\ fCalls' = r.fCalls
                         /\ tret' = [op |-> "Root", node |-> r.node, err |-> r.err]
                         /\ UNCHANGED panicked
    /\ UNCHANGED <<hasF, fFailOn, added, addLevels, nAdds>>

\* ------------------------------------------------------------------------
\* Seek (src/hashsplit.go:367-397)
\* ------------------------------------------------------------------------
ErrNotFound == "not found"

\* Seek, line 373: pos lies outside the node's range
\* variant: only the upper end of the range is tested
outOfRangeUpperOnly(node, pos) == pos >= node.offset + node.size

outOfRange(node, pos) == pos < node.offset \/ pos >= node.offset + node.size

\* Seek, line 389: the child ends at or before pos
endsBefore(child, pos) == pos >= child.offset + child.size

\* func Seek(n Node, pos uint64) (Node, error), on the node at address id.
\* fell is TRUE when the return after the child loop (line 396) was reached.
\* For the nil Node, n.Offset() at line 373 dereferences nil: a run-time panic.
RECURSIVE Seek(_, _, _)
Seek(h, id, pos) ==
    IF id = NilNode
    THEN [node |-> NilNode, err |-> "panic", fell |-> FALSE]
    ELSE IF outOfRange(h[id], pos)
    THEN [node |-> NilNode, err |-> ErrNotFound, fell |-> FALSE]
    ELSE IF Len(h[id].Nodes) = 0
    THEN [node |-> id, err |-> Nil, fell |-> FALSE]
    ELSE LET kids == h[id].Nodes
             cand == {i \in DOMAIN kids : ~endsBefore(h[kids[i]], pos)}
         IN  IF cand = {}
             THEN [node |-> NilNode, err |-> ErrNotFound, fell |-> TRUE]
             ELSE Seek(h, kids[CHOOSE i \in cand : \A j \in cand : i <= j], pos)

\* the addresses of the nodes of the tree rooted at id
RECURSIVE Subtree(_, _)
Subtree(h, id) ==
    {id} \cup UNION {Subtree(h, h[id].Nodes[i]) : i \in DOMAIN h[id].Nodes}

RECURSIVE SumLen(_)
SumLen(chunks) ==
    IF chunks = <<>> THEN 0 ELSE Len(Head(chunks)) + SumLen(Tail(chunks))

\* a caller seeks in the tree Root returned: at the root or at any node
\* below it, or at the nil Node Root returned without error.  Seek does not
\* change the tree, so one call is taken per tree.
SeekCall(id, pos) ==
    /\ ~panicked
    /\ seekRes = NoSeek
    /\ tret.op = "Root"
    /\ IF tret.node = NilNode
       THEN tret.err = Nil /\ id = NilNode
       ELSE id # NilNode /\ id \in Subtree(heap, tret.node)
    /\ LET res == Seek(heap, id, pos)
       IN  /\ seekRes' = [n |-> id, pos |-> pos, res |-> res]
           /\ panicked' = (res.err = "panic")
    /\ UNCHANGED <<heap, levels, hasF, fFailOn, fCalls, added, addLevels, tret,
                   nAdds, nRoots>>

\* var tb TreeBuilder, with the exported field F set by the caller
TreeInit ==
    /\ heap = <<>>
    /\ levels = <<>>
    /\ hasF \in BOOLEAN
    /\ fFailOn \in 0..MaxFFailOn
    /\ hasF = FALSE => fFailOn = 0
    /\ fCalls = <<>>
    /\ added = <<>>
    /\ addLevels = <<>>
    /\ tret = [op |-> "New", node |-> NilNode, err |-> Nil]
    /\ nAdds = 0
    /\ nRoots = 0
    /\ panicked = FALSE
    /\ seekRes = NoSeek

\* ------------------------------------------------------------------------
\* Tree, the streaming form of the tree builder (src/unnamed/part_008:668-725)
\*
\* Tree consumes chunk/level pairs from the iterator inp and yields
\* TreeNode/level pairs to its consumer.  The TreeNode objects live in heap
\* and the local variable levels in the variable levels, as for the
\* TreeBuilder; the field Nodes of a heap record holds TreeNode.Children.
\* ------------------------------------------------------------------------
VARIABLES
    yielded,      \* the node/level pairs Tree has yielded, in order
    tstate,       \* "idle": Tree is not used; "running"; "done": Tree returned
    stopAt        \* the consumer's yield returns false at this call (0: never)

streamVars == <<yielded, tstate, stopAt>>

\* the consumer's yield function: it returns false at its stopAt-th call
yieldOk(ys) == Len(ys) # stopAt

\* Tree, lines 677-692: the body of the loop for index i (0-based).
\* st = [heap, levels, yielded, returned]
TreeLevel(st, i) ==
    IF st.returned THEN st
    ELSE
        LET \* lines 677-681: a new top level
            isTop == i = Len(st.levels) - 1
            heap1 == IF isTop
                     THEN Alloc(st.heap, NewNode(st.heap[st.levels[i + 1]].size, 0))
                     ELSE st.heap
            lev1  == IF isTop THEN Append(st.levels, Len(heap1)) ELSE st.levels
            cur   == lev1[i + 1]
            up    == lev1[i + 2]
            \* line 684
            heap2 == [heap1 EXCEPT ![up].Nodes = Append(@, cur)]
            \* line 686
            ys    == Append(st.yielded, [node |-> cur, level |-> i])
        IN  IF ~yieldOk(ys)
            THEN [heap |-> heap2, levels |-> lev1, yielded |-> ys, returned |-> TRUE]
            ELSE
                LET \* lines 690-692
                    heap3 == Alloc(heap2, NewNode(0, heap2[up].offset + heap2[up].size))
                IN  [heap |-> heap3,
                     levels |-> [lev1 EXCEPT ![i + 1] = Len(heap3)],
                     yielded |-> ys, returned |-> FALSE]

\* Tree, line 676: for i := 0; i < level; i++
RECURSIVE TreeLoop(_, _, _)
TreeLoop(st, i, level) ==
    IF i >= level \/ st.returned THEN st
    ELSE TreeLoop(TreeLevel(st, i), i + 1, level)

\* Tree, lines 671-693: one chunk/level pair is taken from inp
TreeChunk(bytes, level) ==
    /\ tstate = "running"
    /\ nAdds < MaxAdds
    /\ nAdds' = nAdds + 1
    /\ added' = Append(added, bytes)
    /\ addLevels' = Append(addLevels, level)
    /\ LET \* lines 672-675
           heap1 == [heap EXCEPT ![levels[1]].Chunks = Append(@, bytes)]
           heap2 == [id \in DOMAIN heap1 |->
                        IF \E k \in DOMAIN levels : levels[k] = id
                        THEN [heap1[id] EXCEPT !.size = @ + Len(bytes)]
                        ELSE heap1[id]]
           r     == TreeLoop([heap |-> heap2, levels |-> levels, yielded |-> yielded,
                              returned |-> FALSE], 0, level)
       IN  /\ heap' = r.heap
           /\ levels' = r.levels
           /\ yielded' = r.yielded
           /\ tstate' = IF r.returned THEN "done" ELSE "running"
    /\ UNCHANGED <<hasF, fFailOn, fCalls, tret, nRoots, panicked, seekRes, stopAt>>

\* Tree, line 696: the lowest pending node holds no chunk
\* variant: the test is missing, the pending nodes are always attached and yielded
noPendingChunkNever(h, lev) == FALSE

noPendingChunk(h, lev) == Len(h[lev[1]].Chunks) = 0

\* Tree, lines 700-702: every pending node becomes the last child of the next
attachPending(h, lev) ==
    [id \in DOMAIN h |->
        IF \E k \in 2..Len(lev) : lev[k] = id
        THEN LET k == CHOOSE k \in 2..Len(lev) : lev[k] = id
             IN  [h[id] EXCEPT !.Nodes = Append(@, lev[k - 1])]
        ELSE h[id]]

\* Tree, lines 704-707: the index (0-based) of the highest pending node that
\* is yielded; the nodes above it have one child each
topIndex(h, lev) ==
    LET stops == {t \in 0..(Len(lev) - 1) : t = 0 \/ Len(h[lev[t + 1]].Nodes) # 1}
    IN  CHOOSE t \in stops : \A u \in stops : u <= t

\* Tree, lines 708-712: the pending nodes 0..top are yielded until the
\* consumer stops
RECURSIVE yieldPending(_, _, _, _)
yieldPending(ys, lev, i, top) ==
    IF i > top THEN ys
    ELSE LET ys1 == Append(ys, [node |-> lev[i + 1], level |-> i])
         IN  IF yieldOk(ys1) THEN yieldPending(ys1, lev, i + 1, top) ELSE ys1

\* Tree, lines 696-713: inp is exhausted
TreeFinish ==
    /\ tstate = "running"
    /\ tstate' = "done"
    /\ IF noPendingChunk(heap, levels)
       THEN UNCHANGED <<heap, yielded>>
       ELSE LET heap1 == attachPending(heap, levels)
            IN  /\ heap' = heap1
                /\ yielded' = yieldPending(yielded, levels, 0, topIndex(heap1, levels))
    /\ UNCHANGED <<levels, hasF, fFailOn, fCalls, added, addLevels, tret, nAdds, nRoots,
                   panicked, seekRes, stopAt>>

\* func Root(tree iter.Seq2[*TreeNode, int]) *TreeNode, lines 719-725
StreamRoot == IF yielded = <<>> THEN NilNode ELSE yielded[Len(yielded)].node

\* Tree is not used
StreamIdle ==
    /\ yielded = <<>>
    /\ tstate = "idle"
    /\ stopAt = 0

\* Tree(inp) is ranged over; line 670: one empty level-0 node
StreamInit ==
    /\ heap = <<NewNode(0, 0)>>
    /\ levels = <<1>>
    /\ hasF = FALSE
    /\ fFailOn = 0
    /\ fCalls = <<>>
    /\ added = <<>>
    /\ addLevels = <<>>
    /\ tret = [op |-> "New", node |-> NilNode, err |-> Nil]
    /\ nAdds = 0
    /\ nRoots = 0
    /\ panicked = FALSE
    /\ seekRes = NoSeek
    /\ yielded = <<>>
    /\ tstate = "running"
    /\ stopAt \in 0..MaxStopAt

\* ------------------------------------------------------------------------
\* The channel form of the Splitter (src/unnamed/part_004:68-112): Split
\* starts a goroutine that reads r byte by byte and sends the chunks on an
\* unbuffered channel; the caller may cancel the context.  The rolling
\* checksum s.R is supplied by the caller through the interface RollSum,
\* so OnSplit is an input of the model.
\* ------------------------------------------------------------------------
VARIABLES
    cpc,          \* the goroutine's position: "idle" (Split is not used),
                  \* "check" (line 77), "read" (line 81), "sendFinal" (line 84),
                  \* "send" (line 100), "closing" (returning), "done" (returned)
    cchunk,       \* the local variable chunk
    ctxDone,      \* TRUE once the caller cancelled the context
    E,            \* Splitter.E
    chClosed,     \* TRUE once the channel is closed
    received,     \* the chunks the consumer received, each with the state of
                  \* the context when it was sent
    nRead,        \* number of bytes read from r
    endless       \* TRUE when r never ends: every ReadByte returns a byte

chanVars == <<cpc, cchunk, ctxDone, E, chClosed, received, nRead, endless>>

\* ctx.Err() of a cancelled context
Canceled == "context canceled"

\* Split, lines 77-80: the test at the top of the loop
ChanCheck ==
    /\ cpc = "check"
    /\ IF ctxDone
       THEN /\ E' = Canceled
            /\ cpc' = "closing"
       ELSE /\ cpc' = "read"
            /\ UNCHANGED E
    /\ UNCHANGED <<cchunk, ctxDone, chClosed, received, nRead>>

\* Split, lines 81-99: rr.ReadByte() returns a byte (with OnSplit as
\* onSplit after it), io.EOF or another error.  The k-th byte read is k.
ChanRead(r, onSplit) ==
    /\ cpc = "read"
    /\ IF r = "EOF"
       THEN /\ cpc' = IF Len(cchunk) > 0 THEN "sendFinal" ELSE "closing"
            /\ UNCHANGED <<cchunk, E, nRead>>
       ELSE IF r = "rderr"
       THEN /\ E' = "rderr"
            /\ cpc' = "closing"
            /\ UNCHANGED <<cchunk, nRead>>
       ELSE /\ nRead < MaxChanBytes
            /\ nRead' = nRead + 1
            /\ cchunk' = Append(cchunk, nRead + 1)
            /\ cpc' = IF onSplit THEN "send" ELSE "check"
            /\ UNCHANGED E
    /\ UNCHANGED <<ctxDone, chClosed, received>>

\* Split, lines 88 and 104: the select takes the send, the consumer
\* receives the chunk
\* variant: the chunk is not emptied after it was sent (line 105 missing)
ChanSendKeepsChunk ==
    /\ cpc \in {"send", "sendFinal"}
    /\ received' = Append(received, [chunk |-> cchunk, cancelled |-> ctxDone,
                                     final |-> cpc = "sendFinal"])
    /\ cpc' = IF cpc = "send" THEN "check" ELSE "closing"
    /\ UNCHANGED <<cchunk, ctxDone, E, chClosed, nRead>>

ChanSend ==
    /\ cpc \in {"send", "sendFinal"}
    /\ received' = Append(received, [chunk |-> cchunk, cancelled |-> ctxDone,
                                     final |-> cpc = "sendFinal"])
    /\ IF cpc = "send"
       THEN /\ cchunk' = <<>>
            /\ cpc' = "check"
       ELSE /\ cpc' = "closing"
            /\ UNCHANGED cchunk
    /\ UNCHANGED <<ctxDone, E, chClosed, nRead>>

\* Split, lines 85-87 and 101-103: the select takes <-ctx.Done()
\* variant: the send is not in a select with <-ctx.Done()
ChanSendOnly ==
    /\ FALSE
    /\ UNCHANGED <<cpc, cchunk, ctxDone, E, chClosed, received, nRead>>

ChanSelectDone ==
    /\ cpc \in {"send", "sendFinal"}
    /\ ctxDone
    /\ E' = Canceled
    /\ cpc' = "closing"
    /\ UNCHANGED <<cchunk, ctxDone, chClosed, received, nRead>>

\* Split, line 72: the goroutine returns and the deferred close(ch) runs,
\* after whatever the return path assigned to s.E
\* variant: the channel is closed but the goroutine goes on with its loop
ChanCloseGoesOn ==
    /\ cpc = "closing"
    /\ chClosed' = TRUE
    /\ cpc' = "check"
    /\ UNCHANGED <<cchunk, ctxDone, E, received, nRead>>

ChanClose ==
    /\ cpc = "closing"
    /\ chClosed' = TRUE
    /\ cpc' = "done"
    /\ UNCHANGED <<cchunk, ctxDone, E, received, nRead>>

\* the caller cancels the context while Split is running
Cancel ==
    /\ cpc \notin {"idle", "done"}
    /\ ~ctxDone
    /\ ctxDone' = TRUE
    /\ UNCHANGED <<cpc, cchunk, E, chClosed, received, nRead>>

\* the channel form is not used
ChanIdle ==
    /\ cpc = "idle"
    /\ cchunk = <<>>
    /\ ctxDone = FALSE
    /\ E = Nil
    /\ chClosed = FALSE
    /\ received = <<>>
    /\ nRead = 0
    /\ endless = FALSE

\* s.Split(ctx, r) has started the goroutine, lines 69-75
ChanInit ==
    /\ cpc = "check"
    /\ cchunk = <<>>
    /\ ctxDone = FALSE
    /\ E = Nil
    /\ chClosed = FALSE
    /\ received = <<>>
    /\ nRead = 0
    /\ endless = FALSE

\* a reader without end: the model records the first MaxChanBytes bytes and
\* the chunks made of them; Recording is FALSE once the goroutine is past them
Recording == ~(endless /\ nRead = MaxChanBytes)

\* Split, lines 81-99: rr.ReadByte() returns a byte that is not recorded
ChanReadOn(onSplit) ==
    /\ cpc = "read"
    /\ ~Recording
    /\ cpc' = IF onSplit THEN "send" ELSE "check"
    /\ UNCHANGED <<cchunk, ctxDone, E, chClosed, received, nRead>>

\* Split, line 104: the select takes the send of a chunk that is not recorded
ChanSendOn ==
    /\ cpc = "send"
    /\ ~Recording
    /\ cchunk' = <<>>
    /\ cpc' = "check"
    /\ UNCHANGED <<ctxDone, E, chClosed, received, nRead>>

\* s.Split(ctx, r) has started the goroutine on a reader that ends or on
\* one that does not
ChanLiveInit ==
    /\ cpc = "check"
    /\ cchunk = <<>>
    /\ ctxDone = FALSE
    /\ E = Nil
    /\ chClosed = FALSE
    /\ received = <<>>
    /\ nRead = 0
    /\ endless \in BOOLEAN

\* ------------------------------------------------------------------------
\* RollSum (src/rollsum.go): the rolling checksum adapted from bup, two
\* uint32 sums over a window of 2^windowSizeBits bytes.  s1 is at most
\* 64 * (255 + 31) and s2 stays below 2^20 (C34 checks both), so the
\* uint32 additions and subtractions never wrap and are the ones on the
\* integers.
\* ------------------------------------------------------------------------
VARIABLES
    rsum,         \* the RollSum: [s1, s2, window, wofs]
    rolled,       \* the bytes passed to Roll, in call order
    nRolls        \* number of Roll calls and runs of Roll calls made by the caller

rollVars == <<rsum, rolled, nRolls>>

\* NewRollSum, lines 22-23
windowSizeBits == 6
splitN == 13

\* the byte values rolled: the least, a small and the greatest byte
RollBytes == {0, 1, 255}

\* rs.windowSize()
rsWindowSize == 2 ^ windowSizeBits

\* rs.charOffset()
rsCharOffset == rsWindowSize \div 2 - 1

\* rs.Reset(); the window is indexed from 0 as in the source
Reset ==
    [s1 |-> rsWindowSize * rsCharOffset,
     s2 |-> (rsWindowSize * rsCharOffset) * (rsWindowSize - 1),
     window |-> [i \in 0..(rsWindowSize - 1) |-> 0],
     wofs |-> 0]

\* rs.OnSplit(): the n lowest bits of s2 are ones
OnSplit(r) == r.s2 % (2 ^ splitN) = 2 ^ splitN - 1

\* rs.Roll(add)
\* variant: the byte that leaves the window is not taken out of s1 (line 44 missing)
RollSumRollKeepsDrop(r, add) ==
    LET ws   == rsWindowSize
        drop == r.window[r.wofs]
        s1   == r.s1 + add
        s2   == (r.s2 + s1) - ws * (drop + rsCharOffset)
    IN  [s1 |-> s1, s2 |-> s2,
         window |-> [r.window EXCEPT ![r.wofs] = add],
         wofs |-> (r.wofs + 1) % ws]

RollSumRoll(r, add) ==
    LET ws   == rsWindowSize
        drop == r.window[r.wofs]
        s1   == (r.s1 + add) - drop
        s2   == (r.s2 + s1) - ws * (drop + rsCharOffset)
    IN  [s1 |-> s1, s2 |-> s2,
         window |-> [r.window EXCEPT ![r.wofs] = add],
         wofs |-> (r.wofs + 1) % ws]

\* a caller's loop: the bytes inp[lo..hi] are rolled in order
RECURSIVE RollSeq(_, _, _, _)
RollSeq(r, inp, lo, hi) ==
    IF lo > hi THEN r
    ELSE IF lo = hi THEN RollSumRoll(r, inp[lo])
    ELSE LET mid  == (lo + hi) \div 2
             left == RollSeq(r, inp, lo, mid)
         IN  IF left.wofs >= 0 THEN RollSeq(left, inp, mid + 1, hi) ELSE left

\* one Roll call
RollOne(b) ==
    /\ nRolls < MaxRolls
    /\ rsum' = RollSumRoll(rsum, b)
    /\ rolled' = Append(rolled, b)
    /\ nRolls' = nRolls + 1

\* a run of Roll calls that fills the window with the byte b but for the
\* last place, which takes the byte c
RollRun(b, c) ==
    LET run == [i \in 1..rsWindowSize |-> IF i = rsWindowSize THEN c ELSE b]
    IN  /\ nRolls < MaxRolls
        /\ rsum' = RollSeq(rsum, run, 1, rsWindowSize)
        /\ rolled' = rolled \o run
        /\ nRolls' = nRolls + 1

\* no RollSum is used
RollIdle ==
    /\ rsum = Reset
    /\ rolled = <<>>
    /\ nRolls = 0

\* ------------------------------------------------------------------------
\* Specifications
\* ------------------------------------------------------------------------
vars == <<splitVars, treeVars, streamVars, splitFnVars, chanVars, rollVars>>

\* the Splitter is driven, the TreeBuilder is not used
Init ==
    /\ SplitInit
    /\ TreeInit
    /\ hasF = FALSE
    /\ StreamIdle
    /\ SplitFnIdle
    /\ ChanIdle
    /\ RollIdle

Next ==
    \/ \E inp \in Slices :
            Write(inp) /\ UNCHANGED <<treeVars, streamVars, splitFnVars, chanVars, rollVars>>
    \/ Close /\ UNCHANGED <<treeVars, streamVars, splitFnVars, chanVars, rollVars>>

Spec == Init /\ [][Next]_vars

\* the TreeBuilder is driven, the Splitter is not used
TreeSpecInit ==
    /\ SplitInit
    /\ MinSize = 0
    /\ SplitBits = 0
    /\ cbFailOn = 0
    /\ TreeInit
    /\ StreamIdle
    /\ SplitFnIdle
    /\ ChanIdle
    /\ RollIdle

TreeNext ==
    \/ \E level \in 0..MaxLevel :
            /\ Add(NextChunk(nAdds + 1), level)
            /\ UNCHANGED <<splitVars, streamVars, splitFnVars, chanVars, rollVars>>
    \/ Root /\ UNCHANGED <<splitVars, streamVars, splitFnVars, chanVars, rollVars>>
    \/ \E id \in (DOMAIN heap) \cup {NilNode}, pos \in 0..(SumLen(added) + 1) :
            /\ SeekCall(id, pos)
            /\ UNCHANGED <<splitVars, streamVars, splitFnVars, chanVars, rollVars>>

TreeSpec == TreeSpecInit /\ [][TreeNext]_vars

\* Tree is driven by a sequence of chunk/level pairs
StreamSpecInit ==
    /\ SplitInit
    /\ MinSize = 0
    /\ SplitBits = 0
    /\ cbFailOn = 0
    /\ StreamInit
    /\ SplitFnIdle
    /\ ChanIdle
    /\ RollIdle

StreamNext ==
    \/ \E level \in 0..MaxLevel :
            /\ TreeChunk(NextChunk(nAdds + 1), level)
            /\ UNCHANGED <<splitVars, splitFnVars, chanVars, rollVars>>
    \/ TreeFinish /\ UNCHANGED <<splitVars, splitFnVars, chanVars, rollVars>>

StreamSpec == StreamSpecInit /\ [][StreamNext]_vars

\* a caller that holds an unused TreeBuilder (no node added) ranges over Tree(inp)
StreamStart(s) ==
    /\ tstate = "idle"
    /\ ~panicked
    /\ levels = <<>>
    /\ heap' = <<NewNode(0, 0)>>
    /\ levels' = <<1>>
    /\ tstate' = "running"
    /\ stopAt' = s
    /\ UNCHANGED <<hasF, fFailOn, fCalls, added, addLevels, tret, nAdds, nRoots, panicked,
                   seekRes, yielded>>

\* both forms of the tree builder: the TreeBuilder is driven, or Tree is
\* ranged over by a caller whose TreeBuilder holds no node
TreesNext ==
    \/ tstate = "idle" /\ TreeNext
    \/ \E s \in 0..MaxStopAt :
            StreamStart(s) /\ UNCHANGED <<splitVars, splitFnVars, chanVars, rollVars>>
    \/ StreamNext

TreesSpec == TreeSpecInit /\ [][TreesNext]_vars

\* Split(r, f) is called: r is read to its end or to its first error
SplitFnSpecInit ==
    /\ SplitFnInit
    /\ TreeInit
    /\ hasF = FALSE
    /\ StreamIdle
    /\ ChanIdle
    /\ RollIdle

SplitFnNext ==
    \/ \E inp \in Slices, e \in ReadErrs :
            SplitRead(inp, e) /\ UNCHANGED <<treeVars, streamVars, chanVars, rollVars>>
    \/ SplitClose /\ UNCHANGED <<treeVars, streamVars, chanVars, rollVars>>

SplitFnSpec == SplitFnSpecInit /\ [][SplitFnNext]_vars

\* the channel form of Split runs, its consumer receives, its caller may cancel
ChanSpecInit ==
    /\ SplitInit
    /\ MinSize = 0
    /\ SplitBits = 0
    /\ cbFailOn = 0
    /\ TreeInit
    /\ hasF = FALSE
    /\ StreamIdle
    /\ SplitFnIdle
    /\ ChanInit
    /\ RollIdle

ChanNext ==
    \/ ChanCheck /\ UNCHANGED <<splitVars, treeVars, streamVars, splitFnVars, rollVars, endless>>
    \/ \E r \in {"byte", "EOF", "rderr"}, onSplit \in BOOLEAN :
            /\ ChanRead(r, onSplit)
            /\ UNCHANGED <<splitVars, treeVars, streamVars, splitFnVars, rollVars, endless>>
    \/ ChanSend /\ UNCHANGED <<splitVars, treeVars, streamVars, splitFnVars, rollVars, endless>>
    \/ ChanSelectDone /\ UNCHANGED <<splitVars, treeVars, streamVars, splitFnVars, rollVars, endless>>
    \/ ChanClose /\ UNCHANGED <<splitVars, treeVars, streamVars, splitFnVars, rollVars, endless>>
    \/ Cancel /\ UNCHANGED <<splitVars, treeVars, streamVars, splitFnVars, rollVars, endless>>

ChanSpec == ChanSpecInit /\ [][ChanNext]_vars

ChanLiveSpecInit ==
    /\ SplitInit
    /\ MinSize = 0
    /\ SplitBits = 0
    /\ cbFailOn = 0
    /\ TreeInit
    /\ hasF = FALSE
    /\ StreamIdle
    /\ SplitFnIdle
    /\ ChanLiveInit
    /\ RollIdle

\* a step the goroutine takes by itself: the check of the context, a read
\* (every ReadByte call returns, and a reader without end returns bytes
\* only), the select taking <-ctx.Done(), the return
ProducerStep ==
    /\ \/ ChanCheck
       \/ \E r \in {"byte", "EOF", "rderr"}, onSplit \in BOOLEAN :
            /\ r = "byte" \/ ~endless
            /\ ChanRead(r, onSplit)
       \/ \E onSplit \in BOOLEAN : ChanReadOn(onSplit)
       \/ ChanSelectDone
       \/ ChanClose
    /\ UNCHANGED <<splitVars, treeVars, streamVars, splitFnVars, rollVars, endless>>

\* the consumer receives the chunk the goroutine offers
ConsumerStep ==
    /\ \/ Recording /\ ChanSend
       \/ ChanSendOn
    /\ UNCHANGED <<splitVars, treeVars, streamVars, splitFnVars, rollVars, endless>>

ChanLiveNext ==
    \/ ProducerStep
    \/ ConsumerStep
    \/ Cancel /\ UNCHANGED <<splitVars, treeVars, streamVars, splitFnVars, rollVars, endless>>

\* the goroutine is scheduled as long as it can take a step; the consumer
\* and the caller that cancels are under no obligation
ChanLiveSpec == ChanLiveSpecInit /\ [][ChanLiveNext]_vars /\ WF_vars(ProducerStep)

\* the Splitter is written slices that end in a non-zero byte, so that the
\* window of a later chunk can hold bytes of an earlier one
LocalNext ==
    \/ \E inp \in LocalSlices :
            Write(inp) /\ UNCHANGED <<treeVars, streamVars, splitFnVars, chanVars, rollVars>>
    \/ Close /\ UNCHANGED <<treeVars, streamVars, splitFnVars, chanVars, rollVars>>

LocalSpec == Init /\ [][LocalNext]_vars

\* the Splitter with a maximum chunk size is fed slices and closed
MaxSpecInit ==
    /\ MaxSplitInit
    /\ TreeInit
    /\ hasF = FALSE
    /\ StreamIdle
    /\ SplitFnIdle
    /\ ChanIdle
    /\ RollIdle

MaxNext ==
    \/ \E inp \in Slices :
            MaxWrite(inp) /\ UNCHANGED <<treeVars, streamVars, splitFnVars, chanVars, rollVars>>
    \/ MaxClose /\ UNCHANGED <<treeVars, streamVars, splitFnVars, chanVars, rollVars>>

MaxSpec == MaxSpecInit /\ [][MaxNext]_vars

\* a RollSum from NewRollSum is rolled bytes, one at a time and in runs
RollSpecInit ==
    /\ SplitInit
    /\ MinSize = 0
    /\ SplitBits = 0
    /\ cbFailOn = 0
    /\ TreeInit
    /\ hasF = FALSE
    /\ StreamIdle
    /\ SplitFnIdle
    /\ ChanIdle
    /\ RollIdle

RollNext ==
    \/ \E b \in RollBytes :
            /\ RollOne(b)
            /\ UNCHANGED <<splitVars, treeVars, streamVars, splitFnVars, chanVars>>
    \/ \E b \in RollBytes, c \in RollBytes :
            /\ RollRun(b, c)
            /\ UNCHANGED <<splitVars, treeVars, streamVars, splitFnVars, chanVars>>

RollSpec == RollSpecInit /\ [][RollNext]_vars

\* ------------------------------------------------------------------------
\* Properties of the Splitter (specification Spec)
\* ------------------------------------------------------------------------
RECURSIVE Concat(_)
Concat(seqs) == IF seqs = <<>> THEN <<>> ELSE Head(seqs) \o Concat(Tail(seqs))

\* the chunks handed to the callback, in call order
CallChunks == [k \in DOMAIN calls |-> calls[k].chunk]

\* the callback has not failed
NoCallbackError == \A k \in DOMAIN calls : calls[k].ok

\* the configuration as documented: MinSize <= 0 means 64, SplitBits 0 means 13
DocMinSize == IF MinSize <= 0 THEN 64 ELSE MinSize
DocSplitBits == IF SplitBits = 0 THEN 13 ELSE SplitBits

\* C1 - Splitter round-trip: if the callback never fails, after Write calls
\* followed by Close the chunks handed to the callback, concatenated in call
\* order, are exactly the bytes written; an empty input produces no callback.
C1_SplitterRoundTrip ==
    /\ (NoCallbackError /\ ret.op = "Close") => Concat(CallChunks) = input
    /\ input = <<>> => calls = <<>>

\* chunks from Write and from Close were emitted and put together
C1_Witness ==
    /\ NoCallbackError
    /\ ret.op = "Close"
    /\ Len(calls) >= 2
    /\ calls[Len(calls)].op = "Close"
    /\ \E k \in DOMAIN calls : calls[k].op = "Write"
    /\ \E k \in DOMAIN calls : Len(calls[k].chunk) >= 2

\* C7 - Boundary rule: Write invokes the callback at a byte exactly when the
\* chunk built since the last boundary has at least MinSize bytes and the
\* digest after that byte has tz >= SplitBits trailing zero bits (so at the
\* first such byte); the chunk passed ends with that byte and the level
\* passed is tz - SplitBits.
C7_BoundaryRule ==
    /\ \A k \in DOMAIN steps :
          steps[k].called <=> (steps[k].len >= DocMinSize /\ steps[k].tz >= DocSplitBits)
    /\ \A j \in DOMAIN calls :
          calls[j].op = "Write" =>
              LET at == calls[j].at
                  n  == Len(calls[j].chunk)
              IN  /\ at \in DOMAIN steps
                  /\ steps[at].called
                  /\ n = steps[at].len
                  /\ n <= at
                  /\ calls[j].chunk = [m \in 1..n |-> steps[at - n + m].c]
                  /\ calls[j].level = steps[at].tz - DocSplitBits

\* no callback failed; Write emitted a chunk of several bytes that holds a
\* byte at which the chunk was long enough but the digest was not at a
\* boundary, and Write emitted a chunk with a level above 0
C7_Witness ==
    /\ NoCallbackError
    /\ \E j \in DOMAIN calls :
          /\ calls[j].op = "Write"
          /\ Len(calls[j].chunk) >= 2
          /\ \E k \in DOMAIN steps :
                /\ k < calls[j].at
                /\ k > calls[j].at - Len(calls[j].chunk)
                /\ steps[k].len >= DocMinSize
                /\ ~steps[k].called
    /\ \E j \in DOMAIN calls : calls[j].op = "Write" /\ calls[j].level > 0

\* C8 - Minimum size: every chunk Write hands to the callback has at least
\* MinSize bytes (MinSize <= 0 meaning 64); only the chunk Close emits may be
\* shorter.
C8_MinimumSize ==
    \A j \in DOMAIN calls :
        calls[j].op = "Write" => Len(calls[j].chunk) >= DocMinSize

\* with the default MinSize, Write emitted a chunk and Close a shorter one
C8_Witness ==
    /\ MinSize <= 0
    /\ \E j \in DOMAIN calls : calls[j].op = "Write"
    /\ \E j \in DOMAIN calls : calls[j].op = "Close" /\ Len(calls[j].chunk) < DocMinSize

\* C9 - Non-emptiness: the callback is never invoked with an empty chunk.
C9_NonEmpty ==
    \A j \in DOMAIN calls : Len(calls[j].chunk) > 0

\* Close was called on a Splitter that received only empty writes
C9_Witness ==
    /\ ret.op = "Close"
    /\ nWrites > 0
    /\ input = <<>>
    /\ calls = <<>>

\* C18 - Callback failure in Write: if the callback returns an error for a
\* chunk, Write returns that error at once: no later byte of the slice is
\* processed and the callback is not invoked again within that Write.
C18_CallbackFailure ==
    [][(/\ ret'.op = "Write"
        /\ nWrites' = nWrites + 1
        /\ \E k \in (Len(calls) + 1)..Len(calls') : ~calls'[k].ok) =>
           /\ ret'.err = "cberr"
           /\ ~calls'[Len(calls')].ok
           /\ \A k \in (Len(calls) + 1)..(Len(calls') - 1) : calls'[k].ok
           /\ Len(steps') = calls'[Len(calls')].at]_vars

\* Write returned the error of the callback and left bytes of its slice
\* unprocessed
C18_Witness ==
    /\ ret.op = "Write"
    /\ ret.err = "cberr"
    /\ ~calls[Len(calls)].ok
    /\ Len(steps) + 1 < Len(input)

\* C22 - Close is idempotent: a Close that follows a Close, whether the
\* callback of the first succeeded or failed, returns nil and does not
\* invoke the callback; the final chunk is not produced a second time.
\* (Close after Close: a Write between them is the misuse of C23.)
C22_CloseIdempotent ==
    [][(ret.op = "Close" /\ ret'.op = "Close") =>
          /\ ret'.err = Nil
          /\ calls' = calls
          /\ chunk' = <<>>]_vars

\* Close was called a second time after a Close whose callback failed
C22_Witness ==
    /\ ret.op = "Close"
    /\ ret.err = Nil
    /\ calls # <<>>
    /\ calls[Len(calls)].op = "Close"
    /\ ~calls[Len(calls)].ok

\* C23 - Write after Close is an error: once Close has been called, a Write
\* fails with a non-nil error and hands no chunk to the callback.
C23_WriteAfterClose ==
    [][(closeCalled /\ nWrites' = nWrites + 1) =>
          /\ ret'.err # Nil
          /\ calls' = calls]_vars

\* a Splitter with the same settings that received no earlier bytes is
\* written the bytes ch
FreshRun(ch) ==
    WriteLoop([chunk |-> <<>>, rs |-> NewRollSum, calls |-> <<>>,
               steps |-> <<>>, returned |-> FALSE, n |-> Len(ch), err |-> Nil],
              ch, 1, Len(ch))

\* the k-th chunk ends where, and has the level that, a Splitter without
\* earlier bytes gives the same bytes: a chunk of Write is the one chunk
\* that Splitter emits, at its last byte; a chunk of Close is what that
\* Splitter, with no boundary so far, emits when closed
LocallyDetermined(k) ==
    LET c == calls[k]
        f == FreshRun(c.chunk)
    IN  IF c.op = "Write"
        THEN /\ Len(f.calls) = 1
             /\ f.calls[1].chunk = c.chunk
             /\ f.calls[1].level = c.level
        ELSE /\ f.calls = <<>>
             /\ f.chunk = c.chunk
             /\ checkSplit(f.rs).level = c.level

\* C26 as stated - Local determination: with MinSize >= 64 the end and the
\* level of every emitted chunk, the final chunk of Close included, depend
\* only on the bytes of that chunk.
C26_LocalDeterminationAll ==
    (NoCallbackError /\ DocMinSize >= windowSize) =>
        \A k \in DOMAIN calls : LocallyDetermined(k)

\* C26 - Local determination: with MinSize >= 64 the end and the level of
\* every chunk emitted by Write, and of a final chunk of Close that is at
\* least 64 bytes long, depend only on the bytes of that chunk: a Splitter
\* that received other earlier bytes, or none, emits the same chunk with
\* the same level.
C26_LocalDetermination ==
    (NoCallbackError /\ DocMinSize >= windowSize) =>
        \A k \in DOMAIN calls :
            (calls[k].op = "Write" \/ Len(calls[k].chunk) >= windowSize) =>
                LocallyDetermined(k)

\* Write emitted a second chunk while the first one, which ends in a
\* non-zero byte, is the earlier input
C26_Witness ==
    /\ NoCallbackError
    /\ DocMinSize >= windowSize
    /\ Len(calls) >= 2
    /\ calls[1].chunk[Len(calls[1].chunk)] # 0
    /\ calls[2].op = "Write"

RECURSIVE RollAll(_, _, _, _)
RollAll(r, inp, lo, hi) ==
    IF lo > hi THEN r
    ELSE IF lo = hi THEN Roll(r, inp[lo])
    ELSE LET mid  == (lo + hi) \div 2
             left == RollAll(r, inp, lo, mid)
         IN  IF left.oldest > 0 THEN RollAll(left, inp, mid + 1, hi) ELSE left

\* the step at which the callback was last invoked (0: never)
LastCallAt == IF calls = <<>> THEN 0 ELSE calls[Len(calls)].at

\* C33 - No reset between chunks: emitting a chunk clears only the chunk
\* buffer; the rolling checksum (window and digest) is left as it is, so
\* it is the checksum of all the bytes written, across the boundaries, and
\* the buffer holds the bytes written since the last chunk.
C33_NoReset ==
    NoCallbackError =>
        /\ rs = RollAll(NewRollSum, input, 1, Len(input))
        /\ chunk = SubSeq(input, LastCallAt + 1, Len(input))

\* Write emitted a chunk that ends in a non-zero byte and took further
\* bytes after it, so the window holds bytes of the chunk emitted
C33_Witness ==
    /\ NoCallbackError
    /\ calls # <<>>
    /\ calls[Len(calls)].op = "Write"
    /\ calls[Len(calls)].chunk[Len(calls[Len(calls)].chunk)] # 0
    /\ chunk # <<>>

\* C35 - Write honours the byte count: when Write returns (n, err), the
\* first n bytes of the slice, and no more, were appended to the chunk
\* buffer and rolled into the checksum.
C35_ByteCount ==
    [][(nWrites' = nWrites + 1) => Len(steps') = Len(steps) + ret'.n]_vars

\* the step of the first byte of the chunk handed over in the k-th
\* invocation of the callback
FirstStep(k) == calls[k].at - Len(calls[k].chunk) + 1

\* C36 - Each chunk is consumed once: over any sequence of Write and Close
\* calls, also when an invocation of the callback returned an error, no
\* input byte is handed to the callback in more than one invocation: the
\* bytes of an invocation come after those of the invocation before.
C36_ConsumedOnce ==
    \A k \in DOMAIN calls :
        k > 1 => FirstStep(k) > calls[k - 1].at

\* the chunk/level pairs of a sequence of callback invocations
Pairs(cs) == [k \in DOMAIN cs |-> <<cs[k].chunk, cs[k].level>>]

\* Close has handed over a chunk, and nothing was written since
ClosedWithChunk ==
    /\ calls # <<>>
    /\ calls[Len(calls)].op = "Close"
    /\ calls[Len(calls)].at = Len(steps)

\* no byte was written after a Close that handed over a chunk
NoWriteAfterFinal ==
    \A k \in DOMAIN calls :
        calls[k].op = "Close" => (k = Len(calls) /\ calls[k].at = Len(steps))

\* C37 - Write-partition independence: for the same bytes and settings
\* the chunk/level pairs handed to the callback are the same however the
\* bytes were divided among the Write calls (empty ones included) before
\* Close: they are the pairs of a Splitter that was given all the bytes in
\* one Write, followed by Close if Close was called.
C37_PartitionIndependent ==
    (NoCallbackError /\ NoWriteAfterFinal) =>
        LET f == FreshRun(input)
        IN  IF ClosedWithChunk
            THEN Pairs(calls) =
                    Append(Pairs(f.calls), <<f.chunk, checkSplit(f.rs).level>>)
            ELSE /\ Pairs(calls) = Pairs(f.calls)
                 /\ chunk = f.chunk

\* the bytes were given in two Writes, the first chunk holds bytes of
\* both, and Close handed over the rest
C37_Witness ==
    /\ NoCallbackError
    /\ nWrites = 2
    /\ Len(input) = ZeroRun + 1
    /\ input[1] = 2
    /\ Len(calls) = 2
    /\ calls[1].op = "Write"
    /\ calls[1].at > 1 /\ calls[1].at < Len(input)
    /\ ClosedWithChunk

\* the level Close is documented to report for the digest of r
DocCloseLevel(r) ==
    LET tz == TrailingZeros32(Sum32(r))
    IN  IF tz >= DocSplitBits THEN tz - DocSplitBits ELSE 0

\* C10 - Final chunk: a Close call with a non-empty buffer hands the whole
\* buffer to the callback as one chunk, whatever MinSize is, with level
\* tz - SplitBits if the digest has tz >= SplitBits trailing zero bits and
\* level 0 otherwise.
C10_FinalChunk ==
    [][(ret'.op = "Close" /\ chunk # <<>>) =>
          /\ Len(calls') = Len(calls) + 1
          /\ calls'[Len(calls')].chunk = chunk
          /\ calls'[Len(calls')].op = "Close"
          /\ calls'[Len(calls')].level = DocCloseLevel(rs)
          /\ \A j \in DOMAIN calls : calls'[j] = calls[j]]_vars

\* Close emitted a chunk shorter than MinSize with a level above 0, and
\* (in another call) a chunk with a digest that is not at a boundary
C10_Witness ==
    /\ \E j \in DOMAIN calls :
          /\ calls[j].op = "Close"
          /\ Len(calls[j].chunk) < DocMinSize
          /\ calls[j].level > 0
    /\ \E j \in DOMAIN calls :
          /\ calls[j].op = "Close"
          /\ calls[j].at > 0
          /\ steps[calls[j].at].tz < DocSplitBits
          /\ calls[j].level = 0

\* ------------------------------------------------------------------------
\* Properties of the TreeBuilder and of Seek (specification TreeSpec)
\* ------------------------------------------------------------------------
\* the chunks of the leaves of the tree rooted at id, left to right
RECURSIVE TreeChunks(_, _)
TreeChunks(h, id) ==
    IF id = NilNode THEN <<>>
    ELSE IF Len(h[id].Nodes) > 0
    THEN Concat([i \in DOMAIN h[id].Nodes |-> TreeChunks(h, h[id].Nodes[i])])
    ELSE h[id].Chunks

\* F has not failed
NoFError == fFailOn = 0 \/ Len(fCalls) < fFailOn

\* the first Root call has just returned, after all the Add calls, without error
RootReturned ==
    /\ tret.op = "Root"
    /\ nRoots = 1
    /\ tret.err = Nil
    /\ NoFError

\* C2 - Tree round-trip: after Add calls followed by Root, the leaf chunks of
\* the returned tree, read left to right, are exactly the chunks added, in
\* order.
C2_TreeRoundTrip ==
    RootReturned => TreeChunks(heap, tret.node) = added

\* C3 - Root coverage: after a non-empty sequence of Add calls, the node Root
\* returns has offset 0 and a size equal to the total length of the chunks added.
C3_RootCoverage ==
    (RootReturned /\ added # <<>>) =>
        /\ tret.node # NilNode
        /\ heap[tret.node].offset = 0
        /\ heap[tret.node].size = SumLen(added)

\* the sizes of the children of the node n, summed
RECURSIVE SumSizes(_, _)
SumSizes(h, ids) ==
    IF ids = <<>> THEN 0 ELSE h[Head(ids)].size + SumSizes(h, Tail(ids))

NodeConsistent(h, id) ==
    LET n == h[id]
    IN  IF Len(n.Nodes) > 0
        THEN /\ n.size = SumSizes(h, n.Nodes)
             /\ h[n.Nodes[1]].offset = n.offset
             /\ \A i \in 1..(Len(n.Nodes) - 1) :
                   h[n.Nodes[i + 1]].offset = h[n.Nodes[i]].offset + h[n.Nodes[i]].size
        ELSE n.size = SumLen(n.Chunks)

\* C4 - Offset/size consistency: in the tree Root returns, an interior node's
\* size is the sum of its children's sizes, a leaf's size is the sum of its
\* chunks' lengths, the first child starts at its parent's offset and each
\* next sibling starts where the previous one ends.
C4_OffsetSizeConsistency ==
    (RootReturned /\ tret.node # NilNode) =>
        \A id \in Subtree(heap, tret.node) : NodeConsistent(heap, id)

\* the level-0 nodes of the tree rooted at id whose range holds pos
LeavesAt(h, id, pos) ==
    {l \in Subtree(h, id) :
        /\ Len(h[l].Nodes) = 0
        /\ h[l].offset <= pos
        /\ pos < h[l].offset + h[l].size}

\* C5 - Seek correctness: for the root Root returned and a position pos
\* below the total input length, Seek returns without error the one level-0
\* node whose range holds pos, and does not reach the return after the child
\* loop.
C5_SeekCorrect ==
    (/\ RootReturned
     /\ seekRes.n # NilNode
     /\ seekRes.n = tret.node
     /\ seekRes.pos < SumLen(added)) =>
        /\ seekRes.res.err = Nil
        /\ ~seekRes.res.fell
        /\ LeavesAt(heap, tret.node, seekRes.pos) = {seekRes.res.node}

\* C6 - Seek out of range: for a non-nil node n and a position pos below
\* n's offset or at or beyond n's offset plus size, Seek returns ErrNotFound
\* and a nil node.
C6_SeekOutOfRange ==
    (/\ seekRes.n # NilNode
     /\ \/ seekRes.pos < heap[seekRes.n].offset
        \/ seekRes.pos >= heap[seekRes.n].offset + heap[seekRes.n].size) =>
        /\ seekRes.res.err = ErrNotFound
        /\ seekRes.res.node = NilNode

\* Seek was called below the offset of an inner node of a tree of more than
\* one level, and was answered with ErrNotFound
C6_Witness ==
    /\ seekRes.n # NilNode
    /\ seekRes.n # tret.node
    /\ Len(heap[tret.node].Nodes) > 1
    /\ seekRes.pos < heap[seekRes.n].offset
    /\ seekRes.res.err = ErrNotFound

\* C11 - Pruning: after a non-empty sequence of Add calls, the node Root
\* returns never has exactly one child: it has no children (a level-0 node)
\* or at least two.
C11_Pruning ==
    (tret.op = "Root" /\ tret.node # NilNode) =>
        \/ Len(heap[tret.node].Nodes) = 0
        \/ Len(heap[tret.node].Nodes) >= 2

\* the top node had a single child and Root descended from it to a node
\* with two children
C11_Witness ==
    /\ tret.op = "Root"
    /\ tret.node # NilNode
    /\ Len(levels) > 1
    /\ Len(heap[levels[Len(levels)]].Nodes) = 1
    /\ tret.node # levels[Len(levels)]
    /\ Len(heap[tret.node].Nodes) >= 2

\* C16 - Transform exactly once: after Add calls followed by one Root call
\* in which F never fails, F has been called exactly once on every node of
\* the tree returned, the root included, and never twice on the same node.
C16_FExactlyOnce ==
    (RootReturned /\ hasF /\ tret.node # NilNode) =>
        /\ \A id \in Subtree(heap, tret.node) :
              Cardinality({k \in DOMAIN fCalls : fCalls[k] = id}) = 1
        /\ \A j, k \in DOMAIN fCalls : fCalls[j] = fCalls[k] => j = k

\* Root returned the top node of a tree of several levels, F was applied to
\* it last, after the nodes Add and Root closed
C16_Witness ==
    /\ RootReturned
    /\ hasF
    /\ Len(levels) >= 2
    /\ tret.node = levels[Len(levels)]
    /\ Len(fCalls) >= 3
    /\ fCalls[Len(fCalls)] = tret.node

\* F has returned an error
FFailed == fFailOn > 0 /\ Len(fCalls) >= fFailOn

\* C17 - Transform failure: if F returns an error during Add or Root, that
\* call returns the error without attaching the node, and the TreeBuilder is
\* terminal: no later Add or Root call succeeds.
C17_FFailureTerminal ==
    [][/\ (~FFailed /\ FFailed') =>
              /\ tret'.err = "ferr"
              /\ tret'.node = NilNode
              /\ \A id \in DOMAIN heap' :
                    \A c \in DOMAIN heap'[id].Nodes :
                        heap'[id].Nodes[c] # fCalls'[Len(fCalls')]
       /\ (FFailed /\ (nAdds' # nAdds \/ nRoots' # nRoots)) =>
              tret'.err # Nil]_vars

\* C24 - Root is final: after Root has returned, every further Add or Root
\* call fails with an error: it does not succeed, it does not crash and it
\* does not invoke F on a node F was applied to before.
C24_RootIsFinal ==
    [][(nRoots >= 1 /\ (nAdds' # nAdds \/ nRoots' # nRoots)) =>
          /\ tret'.err \notin {Nil, "panic"}
          /\ ~panicked'
          /\ \A k \in (Len(fCalls) + 1)..Len(fCalls') :
                \A j \in DOMAIN fCalls : fCalls'[k] # fCalls[j]]_vars

\* exactly one of the fields Nodes and Chunks of the node is non-empty
OneOfNodesChunks(n) == (Len(n.Nodes) > 0) # (Len(n.Chunks) > 0)

\* C25 - Node shape: in the tree Root returns, and in every node attached
\* as a child during Add, exactly one of Nodes and Chunks is non-empty: a
\* node has chunks and no children or children and no chunks.
C25_NodeShape ==
    /\ (RootReturned /\ tret.node # NilNode) =>
          \A id \in Subtree(heap, tret.node) : OneOfNodesChunks(heap[id])
    /\ (nRoots = 0 /\ ~panicked) =>
          \A id \in DOMAIN heap :
              \A c \in DOMAIN heap[id].Nodes :
                  OneOfNodesChunks(heap[heap[id].Nodes[c]])

\* Root returned a tree of three levels that it completed from the open nodes
C25_Witness ==
    /\ RootReturned
    /\ tret.node # NilNode
    /\ Len(levels) >= 3
    /\ levels[1] = NilNode
    /\ tret.node = levels[Len(levels)]

\* the last child of the node at address id
LastChild(h, id) == h[id].Nodes[Len(h[id].Nodes)]

\* an Add call returned nil and neither Root nor a failure of F came before
AddsOnly == nRoots = 0 /\ ~panicked /\ ~FFailed

\* the node closed at level i (0-based) by an Add with level L that left
\* the heap h and the open nodes lev: the node closed at level L-1 is the
\* last child of the node open at level L, a node closed below is the last
\* child of the node closed above it
RECURSIVE ClosedAt(_, _, _, _)
ClosedAt(h, lev, L, i) ==
    IF i = L - 1 THEN LastChild(h, lev[L + 1])
    ELSE LastChild(h, ClosedAt(h, lev, L, i + 1))

\* C29 - Add closes the L lowest levels: after Add(bytes, L), for each
\* i < L the node that was open at level i is the last child of the node
\* that was open at level i+1 (created if it did not exist) and is replaced
\* by a new node with no chunks, no children, size 0 and an offset equal to
\* the number of bytes added so far; the nodes open at levels > L have
\* received no child.
C29_AddCloses ==
    [][(nAdds' = nAdds + 1 /\ AddsOnly /\ AddsOnly' /\ tret'.err = Nil) =>
        LET L     == addLevels'[Len(addLevels')]
            bytes == added'[Len(added')]
            total == SumLen(added')
            closed(i) == ClosedAt(heap', levels', L, i)
        IN  /\ Len(levels') = IF Len(levels) > L + 1 THEN Len(levels) ELSE L + 1
            /\ \A i \in 0..(L - 1) :
                  /\ IF i + 1 <= Len(levels)
                     THEN \* the node that was open at level i, with the chunk
                          \* or the child it was given
                          /\ closed(i) = levels[i + 1]
                          /\ IF i = 0
                             THEN /\ heap'[closed(i)].Chunks =
                                        Append(heap[levels[1]].Chunks, bytes)
                                  /\ heap'[closed(i)].Nodes = <<>>
                             ELSE /\ heap'[closed(i)].Nodes =
                                        Append(heap[levels[i + 1]].Nodes, closed(i - 1))
                                  /\ heap'[closed(i)].Chunks = <<>>
                     ELSE \* the level did not exist: the node was created
                          /\ closed(i) \notin DOMAIN heap
                          /\ IF i = 0
                             THEN /\ heap'[closed(i)].Chunks = <<bytes>>
                                  /\ heap'[closed(i)].Nodes = <<>>
                             ELSE /\ heap'[closed(i)].Nodes = <<closed(i - 1)>>
                                  /\ heap'[closed(i)].Chunks = <<>>
                  \* the node that replaces it
                  /\ levels'[i + 1] \notin DOMAIN heap
                  /\ levels'[i + 1] # closed(i)
                  /\ heap'[levels'[i + 1]] =
                        [Nodes |-> <<>>, Chunks |-> <<>>, size |-> 0, offset |-> total]
            /\ \A i \in L..(Len(levels) - 1) :
                  /\ levels'[i + 1] = levels[i + 1]
                  /\ i > L => heap'[levels'[i + 1]].Nodes = heap[levels[i + 1]].Nodes
                  /\ (i = L /\ L > 0) =>
                        heap'[levels'[i + 1]].Nodes =
                            Append(heap[levels[i + 1]].Nodes, closed(L - 1))
            \* a level L created by this call holds the node closed below it
            /\ (L > 0 /\ Len(levels) <= L) =>
                  /\ levels'[L + 1] \notin DOMAIN heap
                  /\ heap'[levels'[L + 1]].Nodes = <<closed(L - 1)>>]_vars

\* an Add with level 2 closed two levels of a TreeBuilder that had one
\* level open above them and bytes added before
C29_Witness ==
    /\ AddsOnly
    /\ tret.op = "Add"
    /\ tret.err = Nil
    /\ Len(added) >= 2
    /\ addLevels[Len(addLevels)] = 2
    /\ Len(levels) = 3
    /\ Len(heap[levels[3]].Nodes) >= 2

\* C30 - Open-node invariant: after any sequence of successful Add calls
\* every open node has offset + size equal to the number of bytes added so
\* far, and the highest open node has offset 0 and that number as its size.
C30_OpenNodes ==
    (AddsOnly /\ levels # <<>>) =>
        /\ \A k \in DOMAIN levels :
              heap[levels[k]].offset + heap[levels[k]].size = SumLen(added)
        /\ heap[levels[Len(levels)]].offset = 0
        /\ heap[levels[Len(levels)]].size = SumLen(added)

\* three levels are open after three Add calls, the lowest one with an
\* offset above 0
C30_Witness ==
    /\ AddsOnly
    /\ Len(added) = 3
    /\ Len(levels) = 3
    /\ heap[levels[1]].offset > 0
    /\ heap[levels[2]].offset > 0

\* the nodes attached as a child of a node of the heap h
Attached(h) ==
    UNION {{h[id].Nodes[c] : c \in DOMAIN h[id].Nodes} : id \in DOMAIN h}

\* the nodes that were passed to F or attached to a parent
ClosedNodes == Attached(heap) \cup {fCalls[k] : k \in DOMAIN fCalls}

\* C31 - Closed nodes are immutable: the TreeBuilder never changes the
\* Nodes, Chunks, size or offset of a node after the node was passed to F
\* or attached to its parent.
C31_ClosedImmutable ==
    [][\A id \in ClosedNodes : heap'[id] = heap[id]]_vars

\* C32 - Singleton chain collapse: if one chunk was added, with any
\* level, or more generally every chunk but the last had level 0, Root
\* returns one level-0 node that holds all the chunks, at offset 0 and with
\* their total length as its size.
C32_SingletonCollapse ==
    (/\ RootReturned
     /\ added # <<>>
     /\ \A k \in 1..(Len(addLevels) - 1) : addLevels[k] = 0) =>
        /\ tret.node # NilNode
        /\ heap[tret.node] =
              [Nodes |-> <<>>, Chunks |-> added, size |-> SumLen(added), offset |-> 0]

\* two chunks were added, the last one with level 2, and Root descended
\* from the top of a chain of single children
C32_Witness ==
    /\ RootReturned
    /\ Len(added) = 2
    /\ addLevels = <<0, 2>>
    /\ Len(levels) = 3
    /\ tret.node # levels[3]
    /\ heap[tret.node].Chunks = added

\* ------------------------------------------------------------------------
\* Properties of the streaming Tree (specification StreamSpec)
\* ------------------------------------------------------------------------
\* Tree has returned and its consumer took every node it yielded
StreamConsumed ==
    /\ tstate = "done"
    /\ stopAt = 0 \/ Len(yielded) < stopAt

\* C12 - Streaming tree, root last: for a non-empty chunk/level sequence
\* consumed to the end, the last node Tree yields is the root of the tree:
\* it has offset 0, its size is the total input size and its leaves hold
\* every chunk, in order.
C12_StreamRootLast ==
    (StreamConsumed /\ added # <<>>) =>
        /\ StreamRoot # NilNode
        /\ heap[StreamRoot].offset = 0
        /\ heap[StreamRoot].size = SumLen(added)
        /\ TreeChunks(heap, StreamRoot) = added

\* the nodes of the final tree: those reachable from the last node yielded
FinalTree == IF StreamRoot = NilNode THEN {} ELSE Subtree(heap, StreamRoot)

\* C13 - Streaming tree, order: Tree yields each node of the final tree
\* exactly once, every node after all of its children; no node yielded is
\* outside the final tree or empty.
C13_StreamOrder ==
    StreamConsumed =>
        /\ \A id \in FinalTree :
              Cardinality({k \in DOMAIN yielded : yielded[k].node = id}) = 1
        /\ \A k \in DOMAIN yielded :
              /\ yielded[k].node \in FinalTree
              /\ heap[yielded[k].node].size > 0
              /\ \A c \in DOMAIN heap[yielded[k].node].Nodes :
                    \E j \in 1..(k - 1) :
                        yielded[j].node = heap[yielded[k].node].Nodes[c]

\* ------------------------------------------------------------------------
\* Properties of both forms of the tree builder (specification TreesSpec)
\* ------------------------------------------------------------------------
\* C14 - Empty tree: when no chunk was ever added, TreeBuilder.Root returns a
\* nil Node and a nil error and F is never called; Tree yields no node at
\* all, so that Root(tree) is nil.
C14_EmptyTree ==
    /\ (tret.op = "Root" /\ added = <<>>) =>
          /\ tret.node = NilNode
          /\ tret.err = Nil
          /\ fCalls = <<>>
    /\ (tstate = "done" /\ added = <<>>) =>
          /\ yielded = <<>>
          /\ StreamRoot = NilNode

\* with F set, Root was called on the unused TreeBuilder, and Tree was
\* ranged over to the end of an empty input
C14_Witness ==
    /\ hasF
    /\ tret.op = "Root"
    /\ tstate = "done"
    /\ added = <<>>

\* C15 - Seek on the empty-tree sentinel: Seek called with the nil root
\* returned for an empty input, at any pos, returns ErrNotFound and a nil
\* node; it does not crash.
C15_SeekNil ==
    (seekRes # NoSeek /\ seekRes.n = NilNode) =>
        /\ seekRes.res.err = ErrNotFound
        /\ seekRes.res.node = NilNode
        /\ ~panicked

\* ------------------------------------------------------------------------
\* Properties of Split (specification SplitFnSpec)
\* ------------------------------------------------------------------------
\* C19 - Input failure: if the reader returns an error other than
\* end-of-stream, Split reports exactly that error and does not emit the
\* partially buffered chunk: Close is not called, the bytes buffered stay in
\* the buffer; on a clean end-of-stream the error reported is nil.  (The
\* consumer is the callback; it is taken not to fail itself.)
C19_InputFailure ==
    /\ rdLast = "rderr" =>
          /\ \A k \in DOMAIN calls : calls[k].op # "Close"
          /\ ~closeCalled
          /\ NoCallbackError =>
                /\ splitRet = "rderr"
                /\ Concat(CallChunks) \o chunk = input
    /\ (rdLast = "EOF" /\ NoCallbackError /\ splitRet \notin {"running", "copied"}) =>
          /\ splitRet = Nil
          /\ Concat(CallChunks) = input

\* the reader failed after a chunk was emitted and while bytes were buffered
C19_Witness ==
    /\ rdLast = "rderr"
    /\ splitRet = "rderr"
    /\ NoCallbackError
    /\ calls # <<>>
    /\ chunk # <<>>

\* ------------------------------------------------------------------------
\* Properties of the channel form of Split (specification ChanSpec)
\* ------------------------------------------------------------------------
\* C20 - Cancellation: once the context is cancelled while Split is running,
\* the goroutine sends no further chunk (the chunk being built is dropped),
\* and when it has stopped the channel is closed and E holds the context's
\* cancellation error.
C20_Cancellation ==
    /\ \A k \in DOMAIN received : ~received[k].cancelled
    /\ (cpc = "done" /\ ctxDone) =>
          /\ chClosed
          /\ E = Canceled

\* the bytes the reader has delivered: the k-th byte is k
ChanInput == [i \in 1..nRead |-> i]

\* the chunks received, concatenated in the order received
ChanOutput == Concat([k \in DOMAIN received |-> received[k].chunk])

\* C21 - Consistent partial output: in every execution, also one ended by a
\* read error or by cancellation, the chunks received so far, concatenated
\* in the order received, are a prefix of the input; when the channel is
\* closed with E nil they are the whole input.
C21_ConsistentPartial ==
    /\ Len(ChanOutput) <= nRead
    /\ ChanOutput = [i \in 1..Len(ChanOutput) |-> ChanInput[i]]
    /\ (chClosed /\ E = Nil) => ChanOutput = ChanInput

\* the channel was closed with E nil after two chunks, the last one the
\* chunk left at the end of the input
C21_Witness ==
    /\ chClosed
    /\ E = Nil
    /\ Len(received) >= 2
    /\ received[Len(received)].final
    /\ Len(received[1].chunk) + Len(received[2].chunk) >= 3

\* ------------------------------------------------------------------------
\* Properties of RollSum (specification RollSpec)
\* ------------------------------------------------------------------------
\* the last W bytes rolled
LastWindow == SubSeq(rolled, Len(rolled) - rsWindowSize + 1, Len(rolled))

\* a RollSum from NewRollSum that rolled just the bytes w
FreshRolled(w) == RollSeq(Reset, w, 1, Len(w))

\* C34 - Sliding window: once W = 2^windowSizeBits bytes were rolled, s1
\* and s2, and hence OnSplit, are those of a RollSum that rolled only the
\* last W bytes, whatever was rolled before them; wofs stays in 0..W-1; no
\* sum leaves the range of a uint32.
C34_SlidingWindow ==
    /\ rsum.wofs \in 0..(rsWindowSize - 1)
    /\ rsum.s1 >= 0 /\ rsum.s1 < 2 ^ 20
    /\ rsum.s2 >= 0 /\ rsum.s2 < 2 ^ 20
    /\ Len(rolled) >= rsWindowSize =>
          LET f == FreshRolled(LastWindow)
          IN  /\ rsum.s1 = f.s1
              /\ rsum.s2 = f.s2
              /\ OnSplit(rsum) = OnSplit(f)

\* more than W bytes were rolled, and the bytes before the last W include
\* a byte that is not zero
C34_Witness ==
    /\ Len(rolled) > rsWindowSize
    /\ \E k \in 1..(Len(rolled) - rsWindowSize) : rolled[k] # 0
    /\ \E k \in DOMAIN LastWindow : LastWindow[k] = 255
    /\ rsum.wofs # 0

\* C38 - Producer termination: if the consumer keeps receiving, or if the
\* context is cancelled (whether or not the consumer receives again), the
\* goroutine eventually returns and closes the channel; it does not stay
\* blocked on a send after cancellation.
C38_ProducerTerminates ==
    /\ ctxDone ~> chClosed
    /\ WF_vars(ConsumerStep) => <>chClosed

\* C38 amended - the same, for a consumer that keeps receiving from a
\* reader that ends: some ReadByte call returns io.EOF or another error.
C38_TerminatesIfInputEnds ==
    /\ ctxDone ~> chClosed
    /\ (~endless /\ WF_vars(ConsumerStep)) => <>chClosed

\* the goroutine returned from a send that no consumer took, after the
\* context was cancelled
C38_Witness ==
    /\ chClosed
    /\ ctxDone
    /\ E = Canceled
    /\ cchunk # <<>>
    /\ received = <<>>

\* C39 - Error publication: the goroutine writes E only before it closes
\* the channel and not afterwards: once the channel is closed the goroutine
\* has returned and E keeps its value.
C39_ErrorPublication ==
    [][chClosed => (E' = E /\ cpc = "done" /\ cpc' = "done")]_vars

\* the channel was closed after a read error was stored in E, and the
\* context was cancelled in between
C39_Witness ==
    /\ chClosed
    /\ E = "rderr"
    /\ ctxDone

====
